---- MODULE Spec2Model ----
(***************************************************************************)
(* Model of the log-store Lambda extension (src/src/main.rs).               *)
(*                                                                         *)
(* main reads the address from the environment, connects, creates the      *)
(* bounded channel, spawns the forwarder task and runs the extension.      *)
(* handler (one invocation per delivered batch) builds one JSON object per *)
(* log and sends it on the channel.  The forwarder task receives, writes   *)
(* and flushes each object, and shuts the stream down when recv yields     *)
(* None.                                                                   *)
(***************************************************************************)
EXTENDS Integers, Sequences, FiniteSets, TLC

\* ------------------------------------------------------------------ bounds

\* channel(1024) at main.rs:119, scaled down so that a full channel is reached
Capacity == 2
\* longest batch delivered to one handler invocation in the pipeline model
MaxBatchLen == 2
\* longest batch delivered in the model that enumerates every record kind
MaxCanonBatch == 2

\* write_all and flush errors in one run
MaxIoErrors == 1

\* concurrent handler invocations (the closure at main.rs:123-129 runs once per batch)
Invocations == {1, 2}

\* ------------------------------------------------------- JSON values (json crate)

JNull == [k |-> "null", v |-> "null"]
JNum(n) == [k |-> "num", v |-> n]
JStr(s) == [k |-> "str", v |-> s]
JObj(fields) == [k |-> "obj", v |-> fields]

\* equality of two JSON values, kind first
JEq(a, b) == a.k = b.k /\ a.v = b.v

\* An object is the sequence of its <<key, value>> entries, in insertion order.
Has(obj, key) == \E i \in 1..Len(obj) : obj[i][1] = key

Get(obj, key) == obj[CHOOSE i \in 1..Len(obj) : obj[i][1] = key][2]

Keys(obj) == {obj[i][1] : i \in 1..Len(obj)}

\* JsonValue::insert on an object: create the key, or override its value
Insert(obj, key, val) ==
    IF Has(obj, key)
    THEN [i \in 1..Len(obj) |-> IF obj[i][1] = key THEN <<key, val>> ELSE obj[i]]
    ELSE Append(obj, <<key, val>>)

\* From<Option<T>> for JsonValue: None is Null
FromOption(o) == IF o.some THEN JNum(o.v) ELSE JNull

ParseOk(val) == [ok |-> TRUE, val |-> val]
ParseErr == [ok |-> FALSE, val |-> JNull]

\* json::parse on the payload texts the model delivers
Parse(s) ==
    CASE s = "{\"level\":\"info\",\"msg\":\"hi\"}" ->
            ParseOk(JObj(<< <<"level", JStr("info")>>, <<"msg", JStr("hi")>> >>))
      [] s = "{\"t\":5,\"type\":\"x\"}" ->
            ParseOk(JObj(<< <<"t", JNum(5)>>, <<"type", JStr("x")>> >>))
      [] s = "{}" -> ParseOk(JObj(<< >>))
      [] s = "null" -> ParseOk(JNull)
      [] s = "\"plain text\"" -> ParseOk(JStr("plain text"))
      [] s = "42" -> ParseOk(JNum(42))
      [] OTHER -> ParseErr

\* ------------------------------------------------------------ log records

Time(secs, nanos) == [secs |-> secs, nanos |-> nanos]

\* DateTime::timestamp_millis
TimestampMillis(time) == time.secs * 1000 + (time.nanos \div 1000000)

None == [some |-> FALSE, v |-> 0]
Some(x) == [some |-> TRUE, v |-> x]

NoMetrics ==
    [duration_ms |-> 0, billed_duration_ms |-> 0, memory_size_mb |-> 0,
     max_memory_used_mb |-> 0, init_duration_ms |-> None]

Metrics(init) ==
    [duration_ms |-> 12, billed_duration_ms |-> 100, memory_size_mb |-> 128,
     max_memory_used_mb |-> 64, init_duration_ms |-> init]

Log(variant, time, record, request_id, metrics) ==
    [variant |-> variant, time |-> time, record |-> record,
     request_id |-> request_id, metrics |-> metrics]

Function(time, record) == Log("Function", time, record, "", NoMetrics)
Extension(time, record) == Log("Extension", time, record, "", NoMetrics)
PlatformStart(time, id) == Log("PlatformStart", time, "", id, NoMetrics)
PlatformEnd(time, id) == Log("PlatformEnd", time, "", id, NoMetrics)
PlatformFault(time, record) == Log("PlatformFault", time, record, "", NoMetrics)
PlatformReport(time, id, metrics) == Log("PlatformReport", time, "", id, metrics)

ForwardedVariants ==
    {"Function", "PlatformStart", "PlatformEnd", "PlatformFault", "PlatformReport"}

EventTypes ==
    {"function", "platform_start", "platform_end", "platform_fault", "platform_report"}

\* ------------------------------------------------- handler: one log to one object

RECURSIVE MergeObject(_, _)
\* main.rs:29-31: insert every entry of the parsed object, in order
MergeObject(json, fields) ==
    IF fields = << >> THEN json
    ELSE MergeObject(Insert(json, fields[1][1], fields[1][2]), Tail(fields))

\* main.rs:22-43: the Function arm
FunctionArm(json, record) ==
    LET typed == Insert(json, "type", JStr("function"))
        parsed == Parse(record)
    IN  IF parsed.ok
        THEN CASE parsed.val.k = "obj" -> MergeObject(typed, parsed.val.v)
               [] parsed.val.k = "null" -> typed
               [] OTHER -> Insert(typed, "record", parsed.val)
        ELSE Insert(typed, "record", JStr(record))

\* main.rs:60-68: the PlatformReport arm
ReportArm(json, request_id, metrics) ==
    LET j1 == Insert(json, "type", JStr("platform_report"))
        j2 == Insert(j1, "request_id", JStr(request_id))
        j3 == Insert(j2, "duration_ms", JNum(metrics.duration_ms))
        j4 == Insert(j3, "billed_duration_ms", JNum(metrics.billed_duration_ms))
        j5 == Insert(j4, "memory_size_mb", JNum(metrics.memory_size_mb))
        j6 == Insert(j5, "max_memory_used_mb", JNum(metrics.max_memory_used_mb))
    IN  Insert(j6, "init_duration_ms", FromOption(metrics.init_duration_ms))

\* main.rs:17-70: the object built for one log
BuildJson(log) ==
    LET json == << <<"t", JNum(TimestampMillis(log.time))>> >>
    IN  CASE log.variant = "Function" -> FunctionArm(json, log.record)
          [] log.variant = "PlatformStart" ->
                Insert(Insert(json, "type", JStr("platform_start")),
                       "request_id", JStr(log.request_id))
          [] log.variant = "PlatformEnd" ->
                Insert(Insert(json, "type", JStr("platform_end")),
                       "request_id", JStr(log.request_id))
          [] log.variant = "PlatformFault" ->
                Insert(Insert(json, "type", JStr("platform_fault")),
                       "record", JStr(log.record))
          [] log.variant = "PlatformReport" ->
                ReportArm(json, log.request_id, log.metrics)
          [] OTHER -> json

\* ------------------------------------------------------------ delivered batches

T1 == Time(1, 5000000)
T2 == Time(2, 999999)

\* the records the pipeline model delivers
PipelineRecords == {Function(T1, "not json")}

\* one record (at least) of every kind the handler distinguishes
AllRecords ==
    {Function(T1, "{\"level\":\"info\",\"msg\":\"hi\"}"),
     Function(T1, "{\"t\":5,\"type\":\"x\"}"),
     Function(T2, "{}"),
     Function(T1, "null"),
     Function(T1, "\"plain text\""),
     Function(T2, "42"),
     Function(T1, "not json"),
     Extension(T1, "from an extension"),
     PlatformStart(T2, "req-1"),
     PlatformEnd(T2, "req-1"),
     PlatformFault(T1, "fault"),
     PlatformReport(T1, "req-1", Metrics(None)),
     PlatformReport(T2, "req-1", Metrics(Some(3)))}

Batches(records, n) == UNION {[1..m -> records] : m \in 1..n}

\* --------------------------------------------------------------------- state

VARIABLES
    addressSet,     \* whether LOG_STORE_ADDRESS is in the environment
    main_pc,        \* where main is: start, connect, serving, returned, exited
    mainResult,     \* what main returned: none, err (before serving), ran
    connects,       \* the number of TcpStream::connect calls so far
    stream,         \* the TcpStream: none, open, refused, shutdown
    queue,          \* the channel's buffered messages, oldest first
    senderAlive,    \* the Sender owned by the logs_processor closure exists
    rxAlive,        \* the Receiver exists (the channel is not closed)
    hpc,            \* per invocation: idle, running, suspended, ok, err
    hbatch,         \* per invocation: the batch it was called with
    hidx,           \* per invocation: the index of the log it is at
    fwd_pc,         \* the forwarder task: none, recv, write, flush, shutdown, done, aborted
    cur,            \* the message the forwarder holds
    buf,            \* the BufWriter's buffered lines
    wire,           \* the lines the socket took, in order
    ioErrors,       \* the number of write_all and flush errors so far
    flushes,        \* history: the number of flush calls of the loop so far
    written,        \* history: sources of the messages write_all was called for
    accepted,       \* history: sources of the messages the channel accepted
    queuedAtClose   \* history: messages buffered when the last Sender went away

vars ==
    <<addressSet, main_pc, mainResult, connects, stream, queue, senderAlive, rxAlive,
      hpc, hbatch, hidx, fwd_pc, cur, buf, wire, ioErrors, flushes, written, accepted,
      queuedAtClose>>

mainVars == <<addressSet, main_pc, mainResult, connects>>
handlerVars == <<hpc, hbatch, hidx>>
sinkVars == <<stream, buf, wire, ioErrors, flushes, written>>

\* a message: the JSON object and (history) the invocation and index it came from
Msg(json, h, i) == [json |-> json, src |-> <<h, i>>]
NoMsg == Msg(<< >>, 0, 0)

\* format!("{}\n", json): the dumped object and the newline that ends the line
FormatLine(msg) == [text |-> msg.json, nl |-> "\n", src |-> msg.src]

Init ==
    /\ addressSet \in BOOLEAN
    /\ main_pc = "start"
    /\ mainResult = "none"
    /\ connects = 0
    /\ stream = "none"
    /\ queue = << >>
    /\ senderAlive = FALSE
    /\ rxAlive = FALSE
    /\ hpc = [h \in Invocations |-> "idle"]
    /\ hbatch = [h \in Invocations |-> << >>]
    /\ hidx = [h \in Invocations |-> 1]
    /\ fwd_pc = "none"
    /\ cur = NoMsg
    /\ buf = << >>
    /\ wire = << >>
    /\ ioErrors = 0
    /\ flushes = 0
    /\ written = << >>
    /\ accepted = << >>
    /\ queuedAtClose = 0

\* ------------------------------------------------------------- the channel

\* a faulty bound check that lets one message too many in
HasPermitOffByOne(q) == Len(q) <= Capacity

\* Sender::send acquires a permit: there is room for one more message
HasPermit(q) == Len(q) < Capacity

\* a faulty channel that hands the newest message out first
EnqueueFront(q, msg) == <<msg>> \o q

\* Sender::send: the message joins the back of the channel
Enqueue(q, msg) == Append(q, msg)

\* a faulty receive that takes the newest message
RecvNextNewest(q) == q[Len(q)]

\* Receiver::recv: the oldest buffered message
RecvNext(q) == Head(q)

\* some Sender exists: the closure's, or the clone an invocation still holds
ProducersOpen(alive, pcs) ==
    alive \/ \E h \in Invocations : pcs[h] \in {"running", "suspended"}

\* a faulty end-of-stream test that takes an empty channel for a closed one
RecvIsNoneWhenEmpty(q, alive, pcs) == q = << >>

\* a faulty end-of-stream test that ignores what is still buffered
RecvIsNoneIgnoringQueue(q, alive, pcs) == ~ProducersOpen(alive, pcs)

\* Receiver::recv yields None: every Sender is gone and nothing is buffered
RecvIsNone(q, alive, pcs) == q = << >> /\ ~ProducersOpen(alive, pcs)

\* history: the number of buffered messages when the last Sender goes away
CloseNote ==
    queuedAtClose' =
        IF ProducersOpen(senderAlive, hpc) /\ ~ProducersOpen(senderAlive', hpc')
        THEN Len(queue') ELSE queuedAtClose

\* ---------------------------------------------------------------------- main

\* a faulty lookup that falls back to a default address
AddressFoundOrDefault == TRUE

\* main.rs:113: env::vars().find(..) finds LOG_STORE_ADDRESS
AddressFound == addressSet

\* main.rs:113-114: the address is looked up; its absence is returned as an error
ReadEnv ==
    /\ main_pc = "start"
    /\ IF AddressFound
       THEN main_pc' = "connect" /\ mainResult' = mainResult
       ELSE main_pc' = "returned" /\ mainResult' = "err"
    /\ UNCHANGED <<addressSet, connects, queue, senderAlive, rxAlive, handlerVars,
                   fwd_pc, cur, sinkVars, accepted, queuedAtClose>>

\* a faulty main that connects again while it serves
CanConnectAgain == main_pc \in {"connect", "serving"}

\* main.rs:118: the one place that connects, reached once, after the lookup
CanConnect == main_pc = "connect"

\* main.rs:118-167: connected; the channel is created, the forwarder task is
\* spawned and the extension starts to run
ConnectOk ==
    /\ CanConnect
    /\ connects' = connects + 1
    /\ main_pc' = "serving"
    /\ stream' = "open"
    /\ senderAlive' = TRUE
    /\ rxAlive' = TRUE
    /\ fwd_pc' = "recv"
    /\ UNCHANGED <<addressSet, mainResult, queue, handlerVars, cur, buf, wire,
                   ioErrors, flushes, written, accepted, queuedAtClose>>

\* main.rs:118: TcpStream::connect fails and `?` returns the error from main
ConnectFail ==
    /\ CanConnect
    /\ connects' = connects + 1
    /\ main_pc' = "returned"
    /\ mainResult' = "err"
    /\ stream' = "refused"
    /\ UNCHANGED <<addressSet, queue, senderAlive, rxAlive, handlerVars, fwd_pc, cur,
                   buf, wire, ioErrors, flushes, written, accepted, queuedAtClose>>

\* main.rs:161-171: Extension::run ends and main returns what it gave (its
\* error at 167, or Ok(()) at 171); the forwarder's JoinHandle was dropped at
\* main.rs:131, so nothing awaits the task
RunEnds ==
    /\ main_pc = "serving"
    /\ main_pc' = "returned"
    /\ mainResult' = "ran"
    /\ UNCHANGED <<addressSet, connects, stream, queue, senderAlive, rxAlive, handlerVars,
                   fwd_pc, cur, buf, wire, ioErrors, flushes, written, accepted, queuedAtClose>>

\* main.rs:123-124: the closure that owns `sender` is dropped with the extension
DropSender ==
    /\ main_pc = "returned"
    /\ senderAlive
    /\ senderAlive' = FALSE
    /\ UNCHANGED <<mainVars, stream, queue, rxAlive, handlerVars, fwd_pc, cur, buf,
                   wire, ioErrors, flushes, written, accepted>>
    /\ CloseNote

\* main.rs:103: the runtime is dropped after main returned; a spawned task that
\* has not finished is dropped where it is suspended, and its Receiver with it
AbortForwarder ==
    /\ main_pc = "returned"
    /\ fwd_pc \in {"recv", "write", "flush", "shutdown"}
    /\ fwd_pc' = "aborted"
    /\ rxAlive' = FALSE
    /\ UNCHANGED <<mainVars, stream, queue, senderAlive, handlerVars, cur, buf, wire,
                   ioErrors, flushes, written, accepted, queuedAtClose>>

\* main.rs:103: the process ends once main has returned
ProcessExit ==
    /\ main_pc = "returned"
    /\ main_pc' = "exited"
    /\ UNCHANGED <<addressSet, mainResult, connects, stream, queue, senderAlive, rxAlive,
                   handlerVars, fwd_pc, cur, buf, wire, ioErrors, flushes, written,
                   accepted, queuedAtClose>>

\* tasks run while the process lives
Alive == main_pc \in {"serving", "returned"}

\* ------------------------------------------------------------------- handler

\* main.rs:123-128: the host delivers a batch; the closure clones the sender
\* and calls handler (invocations are numbered in the order they are made)
Invoke(h, batch) ==
    /\ main_pc = "serving"
    /\ hpc[h] = "idle"
    /\ \A g \in Invocations : g < h => hpc[g] # "idle"
    /\ hpc' = [hpc EXCEPT ![h] = "running"]
    /\ hbatch' = [hbatch EXCEPT ![h] = batch]
    /\ hidx' = [hidx EXCEPT ![h] = 1]
    /\ UNCHANGED <<mainVars, stream, queue, senderAlive, rxAlive, fwd_pc, cur, buf,
                   wire, ioErrors, flushes, written, accepted, queuedAtClose>>

\* a faulty loop that sends the same log again
AcceptNoAdvance(h) ==
    LET i == hidx[h]
        msg == Msg(BuildJson(hbatch[h][i]), h, i)
    IN  /\ queue' = Enqueue(queue, msg)
        /\ accepted' = Append(accepted, msg.src)
        /\ UNCHANGED <<hidx, hpc, hbatch>>

\* main.rs:16-76: the message is accepted; the loop goes on to the next log, or
\* ends and handler returns Ok(()), dropping its clone of the sender
Accept(h) ==
    LET i == hidx[h]
        msg == Msg(BuildJson(hbatch[h][i]), h, i)
    IN  /\ queue' = Enqueue(queue, msg)
        /\ accepted' = Append(accepted, msg.src)
        /\ hidx' = [hidx EXCEPT ![h] = i + 1]
        /\ hpc' = [hpc EXCEPT ![h] = IF i = Len(hbatch[h]) THEN "ok" ELSE "running"]
        /\ hbatch' = hbatch

\* a faulty handler that also writes the line to the stream itself
SendOkWritingSink(h) ==
    /\ Alive
    /\ hpc[h] = "running"
    /\ rxAlive
    /\ HasPermit(queue)
    /\ Accept(h)
    /\ buf' = Append(buf, FormatLine(Msg(BuildJson(hbatch[h][hidx[h]]), h, hidx[h])))
    /\ UNCHANGED <<mainVars, stream, senderAlive, rxAlive, fwd_pc, cur, wire,
                   ioErrors, flushes, written>>
    /\ CloseNote

\* main.rs:73: send on a channel with room
SendOk(h) ==
    /\ Alive
    /\ hpc[h] = "running"
    /\ rxAlive
    /\ HasPermit(queue)
    /\ Accept(h)
    /\ UNCHANGED <<mainVars, stream, senderAlive, rxAlive, fwd_pc, cur, buf, wire,
                   ioErrors, flushes, written>>
    /\ CloseNote

\* main.rs:73: send on a full channel; the invocation is suspended at the await
SendSuspend(h) ==
    /\ Alive
    /\ hpc[h] = "running"
    /\ rxAlive
    /\ ~HasPermit(queue)
    /\ hpc' = [hpc EXCEPT ![h] = "suspended"]
    /\ UNCHANGED <<mainVars, stream, queue, senderAlive, rxAlive, hbatch, hidx,
                   fwd_pc, cur, buf, wire, ioErrors, flushes, written, accepted,
                   queuedAtClose>>

\* main.rs:73: a suspended send completes when the channel has room again
SendResume(h) ==
    /\ Alive
    /\ hpc[h] = "suspended"
    /\ rxAlive
    /\ HasPermit(queue)
    /\ Accept(h)
    /\ UNCHANGED <<mainVars, stream, senderAlive, rxAlive, fwd_pc, cur, buf, wire,
                   ioErrors, flushes, written>>
    /\ CloseNote

\* main.rs:73: send on a closed channel is an error, which `?` returns
SendClosed(h) ==
    /\ Alive
    /\ hpc[h] \in {"running", "suspended"}
    /\ ~rxAlive
    /\ hpc' = [hpc EXCEPT ![h] = "err"]
    /\ UNCHANGED <<mainVars, stream, queue, senderAlive, rxAlive, hbatch, hidx,
                   fwd_pc, cur, buf, wire, ioErrors, flushes, written, accepted>>
    /\ CloseNote

\* ----------------------------------------------------------------- forwarder

\* main.rs:132: recv yields the oldest message
Recv ==
    /\ Alive
    /\ fwd_pc = "recv"
    /\ queue # << >>
    /\ cur' = RecvNext(queue)
    /\ queue' = SelectSeq(queue, LAMBDA m : m.src # RecvNext(queue).src)
    /\ fwd_pc' = "write"
    /\ UNCHANGED <<mainVars, senderAlive, rxAlive, handlerVars, sinkVars, accepted, queuedAtClose>>

\* main.rs:132: recv yields None and the loop ends
RecvNone ==
    /\ Alive
    /\ fwd_pc = "recv"
    /\ RecvIsNone(queue, senderAlive, hpc)
    /\ fwd_pc' = "shutdown"
    /\ UNCHANGED <<mainVars, queue, senderAlive, rxAlive, handlerVars, cur, sinkVars,
                   accepted, queuedAtClose>>

\* a faulty loop that ends at a write error
AfterWriteFatal(ok) == IF ok THEN "flush" ELSE "shutdown"

\* a faulty loop that goes to the next message at a write error
AfterWriteSkipFlush(ok) == IF ok THEN "flush" ELSE "recv"

\* main.rs:138-142: whatever write_all returned, flush is called next
AfterWrite(ok) == "flush"

\* main.rs:134-140: the line is formatted and write_all is called; an error is
\* printed and the task goes on
Write(ok) ==
    /\ Alive
    /\ fwd_pc = "write"
    /\ ok \/ ioErrors < MaxIoErrors
    /\ written' = Append(written, cur.src)
    /\ buf' = IF ok THEN Append(buf, FormatLine(cur)) ELSE buf
    /\ ioErrors' = IF ok THEN ioErrors ELSE ioErrors + 1
    /\ fwd_pc' = AfterWrite(ok)
    /\ UNCHANGED <<mainVars, stream, queue, senderAlive, rxAlive, handlerVars, cur,
                   wire, flushes, accepted, queuedAtClose>>

\* main.rs:142-144: flush succeeds and the socket has taken every buffered line
FlushOk ==
    /\ Alive
    /\ fwd_pc = "flush"
    /\ wire' = wire \o buf
    /\ buf' = << >>
    /\ flushes' = flushes + 1
    /\ cur' = NoMsg
    /\ fwd_pc' = "recv"
    /\ UNCHANGED <<mainVars, stream, queue, senderAlive, rxAlive, handlerVars,
                   ioErrors, written, accepted, queuedAtClose>>

\* main.rs:142-144: flush fails after the socket took taken lines of the
\* buffer; the error is printed, the rest stays buffered and the task goes on
FlushErr(taken) ==
    /\ Alive
    /\ fwd_pc = "flush"
    /\ taken < Len(buf)
    /\ ioErrors < MaxIoErrors
    /\ ioErrors' = ioErrors + 1
    /\ flushes' = flushes + 1
    /\ wire' = wire \o SubSeq(buf, 1, taken)
    /\ buf' = SubSeq(buf, taken + 1, Len(buf))
    /\ cur' = NoMsg
    /\ fwd_pc' = "recv"
    /\ UNCHANGED <<mainVars, stream, queue, senderAlive, rxAlive, handlerVars,
                   written, accepted, queuedAtClose>>

\* main.rs:147-152: the stream is shut down (what is buffered is flushed
\* first); an error is logged; the task ends and its Receiver is dropped
Shutdown(ok) ==
    /\ Alive
    /\ fwd_pc = "shutdown"
    /\ IF ok
       THEN stream' = "shutdown" /\ wire' = wire \o buf /\ buf' = << >>
       ELSE UNCHANGED <<stream, wire, buf>>
    /\ fwd_pc' = "done"
    /\ rxAlive' = FALSE
    /\ UNCHANGED <<mainVars, queue, senderAlive, handlerVars, cur, ioErrors, flushes, written,
                   accepted, queuedAtClose>>

\* ------------------------------------------------------------ specifications

\* what main does
MainSteps ==
    \/ ReadEnv
    \/ ConnectOk
    \/ ConnectFail
    \/ RunEnds
    \/ DropSender
    \/ ProcessExit

\* what the forwarder task does, and what is done to it
ForwarderSteps ==
    \/ Recv
    \/ RecvNone
    \/ \E ok \in BOOLEAN : Write(ok)
    \/ FlushOk
    \/ \E taken \in 0..Len(buf) : FlushErr(taken)
    \/ \E ok \in BOOLEAN : Shutdown(ok)

\* concurrent invocations over batches of the pipeline records
Next ==
    \/ MainSteps
    \/ AbortForwarder
    \/ \E h \in Invocations, batch \in Batches(PipelineRecords, MaxBatchLen) :
          Invoke(h, batch)
    \/ \E h \in Invocations : SendOk(h)
    \/ \E h \in Invocations : SendSuspend(h)
    \/ \E h \in Invocations : SendResume(h)
    \/ \E h \in Invocations : SendClosed(h)
    \/ ForwarderSteps

Spec == Init /\ [][Next]_vars

\* one invocation over batches of every kind of record
CanonNext ==
    \/ MainSteps
    \/ \E batch \in Batches(AllRecords, MaxCanonBatch) : Invoke(1, batch)
    \/ SendOk(1)
    \/ ForwarderSteps

CanonSpec == Init /\ [][CanonNext]_vars

\* the extension while it serves: Extension::run (main.rs:161-167) has not
\* returned, so main holds its Sender and the runtime keeps the forwarder
LiveNext ==
    \/ ReadEnv
    \/ ConnectOk
    \/ ConnectFail
    \/ ProcessExit
    \/ \E h \in Invocations, batch \in Batches(PipelineRecords, MaxBatchLen) :
          Invoke(h, batch)
    \/ \E h \in Invocations : SendOk(h)
    \/ \E h \in Invocations : SendSuspend(h)
    \/ \E h \in Invocations : SendResume(h)
    \/ Recv
    \/ \E ok \in BOOLEAN : Write(ok)
    \/ FlushOk
    \/ \E taken \in 0..Len(buf) : FlushErr(taken)

\* the runtime polls a task that can go on: the forwarder is scheduled, its
\* write_all and flush calls return, an invocation's send is polled, and the
\* channel's semaphore hands a freed permit to the waiting senders in turn
LiveFairness ==
    /\ WF_vars(Recv)
    /\ WF_vars(\E ok \in BOOLEAN : Write(ok))
    /\ WF_vars(FlushOk \/ \E taken \in 0..Len(buf) : FlushErr(taken))
    /\ \A h \in Invocations : WF_vars(SendOk(h) \/ SendSuspend(h))
    /\ \A h \in Invocations : SF_vars(SendResume(h))

LiveSpec == Init /\ [][LiveNext]_vars /\ LiveFairness

\* ---------------------------------------------------------- shared notions

IsPrefix(s, t) == Len(s) <= Len(t) /\ SubSeq(t, 1, Len(s)) = s

Srcs(msgs) == [i \in 1..Len(msgs) |-> msgs[i].src]

InSeq(x, s) == \E i \in 1..Len(s) : s[i] = x

\* s lists some of the elements of t, each once, in the order t has them
IsSubsequence(s, t) ==
    /\ \A i \in 1..Len(s) : InSeq(s[i], t)
    /\ \A i, j \in 1..Len(s) :
          i < j => (CHOOSE a \in 1..Len(t) : t[a] = s[i])
                      < (CHOOSE b \in 1..Len(t) : t[b] = s[j])

\* the sources in srcs that one invocation sent come in the order of its batch
OrderedPerBatch(srcs) ==
    \A i, j \in 1..Len(srcs) :
        (i < j /\ srcs[i][1] = srcs[j][1]) => srcs[i][2] < srcs[j][2]

\* srcs has a message of one invocation between two of another
Interleaved(srcs) ==
    \E i, j, k \in 1..Len(srcs) :
        i < j /\ j < k /\ srcs[i][1] = srcs[k][1] /\ srcs[j][1] # srcs[i][1]

\* the lines handed to the sink and not lost: taken by the socket, or buffered
Lines == wire \o buf

\* the message the forwarder dequeued and has not yet called write_all for
Held == IF fwd_pc \in {"write", "aborted"} /\ cur.src # NoMsg.src
           /\ ~InSeq(cur.src, written)
        THEN <<cur.src>> ELSE << >>

\* the log a message was built from
LogOf(msg) == hbatch[msg.src[1]][msg.src[2]]

InFlight == {queue[i] : i \in 1..Len(queue)}

\* ------------------------------------------------------------------- claims

\* C1: the forwarder calls write_all for the messages of one invocation, and
\* the sink receives their lines, in the order of the logs in that
\* invocation's batch, whatever the other invocations do.
C1_BatchOrderPreserved ==
    /\ OrderedPerBatch(written)
    /\ OrderedPerBatch(Srcs(Lines))

\* C1 witness: both lines of a two-log batch are on the wire, with a line of
\* the other invocation between them.
C1_Witness ==
    /\ Interleaved(Srcs(wire))
    /\ \E h \in Invocations :
          Len(hbatch[h]) >= 2 /\ InSeq(<<h, 1>>, Srcs(wire)) /\ InSeq(<<h, 2>>, Srcs(wire))

\* C2: at every moment the messages write_all was called for are a prefix of
\* the messages in the order the channel accepted them (none reordered,
\* duplicated or skipped), and the lines at the sink follow that order.
C2_WrittenIsPrefixOfAccepted ==
    /\ IsPrefix(written, accepted)
    /\ IsSubsequence(Srcs(Lines), written)

\* C2 witness: the sends of two invocations were accepted interleaved and
\* write_all was called for every one of them.
C2_Witness ==
    /\ Interleaved(accepted)
    /\ written = accepted
    /\ Len(wire) = Len(accepted)

\* C3: the channel never holds more than Capacity messages; while it is full
\* (and open) no invocation's send completes or fails, so a send made on a
\* full channel completes only after a recv; and every accepted message is in
\* the channel, held by the forwarder, or was handed to write_all.
C3_QueueBounded ==
    /\ Len(queue) <= Capacity
    /\ accepted = written \o Held \o Srcs(queue)

C3_FullQueueSuspends ==
    (Len(queue) >= Capacity /\ rxAlive) =>
        \A h \in Invocations :
            hpc[h] \in {"running", "suspended"} =>
                /\ hpc'[h] \in {"running", "suspended"}
                /\ hidx'[h] = hidx[h]
                /\ accepted' = accepted

C3_Backpressure == [](C3_QueueBounded) /\ [][C3_FullQueueSuspends]_vars

\* C3 witness: an invocation is suspended in send on a full channel.
C3_Witness ==
    /\ Len(queue) = Capacity
    /\ \E h \in Invocations : hpc[h] = "suspended"

\* C4 (as claimed): a failed connect is not fatal; main goes on, the forwarder
\* exists and batches are served.
C4_ConnectFailureNotFatal ==
    stream = "refused" => (mainResult # "err" /\ fwd_pc # "none")

\* C5: when the forwarder has left its receive loop, the channel is empty and
\* write_all was called for every accepted message.
C5_DrainBeforeTermination ==
    fwd_pc \in {"shutdown", "done"} => (queue = << >> /\ written = accepted)

\* C5 witness: messages were still buffered when the last Sender went away,
\* and the forwarder has ended.
C5_Witness ==
    /\ fwd_pc = "done"
    /\ queuedAtClose > 0
    /\ written = accepted

\* C6 (as claimed): when the process exits after the extension ran, the
\* forwarder has written every accepted message and has ended with the socket
\* shut down.
C6_ExitAfterDrain ==
    (main_pc = "exited" /\ mainResult = "ran") =>
        (fwd_pc = "done" /\ queue = << >> /\ written = accepted)

\* C7 (as claimed): an invocation that returned Ok enqueued as many messages
\* as its batch has logs of the forwarded variants.
C7_OtherVariantsSkipped ==
    \A h \in Invocations :
        hpc[h] = "ok" =>
            Cardinality({i \in 1..Len(accepted) : accepted[i][1] = h})
              = Cardinality({i \in 1..Len(hbatch[h]) :
                               hbatch[h][i].variant \in ForwardedVariants})

\* C8 (as claimed): for a Function log whose payload parses to an object with
\* a key t or type, the message still has t = the log's time in milliseconds
\* and type = "function".
C8_ReservedKeysKept ==
    \A msg \in InFlight :
        LET log == LogOf(msg)
            parsed == Parse(log.record)
        IN  (/\ log.variant = "Function"
             /\ parsed.ok
             /\ parsed.val.k = "obj"
             /\ (Has(parsed.val.v, "t") \/ Has(parsed.val.v, "type")))
            => /\ Has(msg.json, "t")
               /\ JEq(Get(msg.json, "t"), JNum(TimestampMillis(log.time)))
               /\ Has(msg.json, "type")
               /\ JEq(Get(msg.json, "type"), JStr("function"))

\* C9 (as claimed): every message in the channel has a t field and a type
\* field, and type is one of the five event types.
C9_TAndTypePresent ==
    \A msg \in InFlight :
        /\ Has(msg.json, "t")
        /\ Has(msg.json, "type")
        /\ Get(msg.json, "type").k = "str"
        /\ Get(msg.json, "type").v \in EventTypes

\* C10 (as claimed): the message of a PlatformReport has no init_duration_ms
\* key when the log has no init duration, and has the value when it has one.
C10_InitDurationOptional ==
    \A msg \in InFlight :
        LET log == LogOf(msg)
            init == log.metrics.init_duration_ms
        IN  log.variant = "PlatformReport" =>
              IF init.some
              THEN /\ Has(msg.json, "init_duration_ms")
                   /\ JEq(Get(msg.json, "init_duration_ms"), JNum(init.v))
              ELSE ~Has(msg.json, "init_duration_ms")

\* no element occurs twice in s
NoDuplicates(s) == \A i, j \in 1..Len(s) : s[i] = s[j] => i = j

\* the sources of invocation h in srcs, as the set of their indices in the batch
IndicesOf(h, srcs) == {srcs[i][2] : i \in {j \in 1..Len(srcs) : srcs[j][1] = h}}

\* C11: a write_all or flush error leaves the forwarder in its loop (flush
\* follows a failed write, recv follows a failed flush) with the channel and
\* the Receiver untouched; write_all is called at most once per message and
\* no message handed to write_all is in the channel again.
C11_ErrorStep ==
    ioErrors' > ioErrors =>
        /\ fwd_pc' \in {"flush", "recv"}
        /\ queue' = queue
        /\ rxAlive' = rxAlive
        /\ stream' = stream

C11_WrittenOnce ==
    /\ NoDuplicates(written)
    /\ NoDuplicates(Srcs(Lines))
    /\ \A i \in 1..Len(queue) : ~InSeq(queue[i].src, written)

C11_WriteErrorNotFatal == [](C11_WrittenOnce) /\ [][C11_ErrorStep]_vars

\* C11 witness: write_all failed for one message (its line is nowhere), and
\* the line of a later message is on the wire.
C11_Witness ==
    /\ ioErrors >= 1
    /\ \E i, j \in 1..Len(written) :
          /\ i < j
          /\ ~InSeq(written[i], Srcs(Lines))
          /\ InSeq(written[j], Srcs(wire))

\* C12: an invocation returns an error only from a send on a closed channel;
\* the step leaves the channel as it is (nothing is rolled back), the
\* invocation does nothing afterwards, the messages it had accepted are those
\* of the logs before the failing one, and no log is accepted twice.
C12_ErrorStep ==
    \A h \in Invocations :
        /\ (hpc[h] # "err" /\ hpc'[h] = "err") =>
              (~rxAlive /\ queue' = queue /\ accepted' = accepted /\ hidx'[h] = hidx[h])
        /\ hpc[h] = "err" =>
              (hpc'[h] = "err" /\ hidx'[h] = hidx[h]
               /\ IndicesOf(h, accepted') = IndicesOf(h, accepted))

C12_PartialProgress ==
    /\ NoDuplicates(accepted)
    /\ \A h \in Invocations :
          hpc[h] = "err" =>
              /\ hidx[h] <= Len(hbatch[h])
              /\ IndicesOf(h, accepted) = 1..(hidx[h] - 1)

C12_ClosedQueueFailsBatch == [](C12_PartialProgress) /\ [][C12_ErrorStep]_vars

\* C12 witness: an invocation failed at the second log of its batch, after the
\* first was accepted.
C12_Witness ==
    \E h \in Invocations :
        /\ hpc[h] = "err"
        /\ hidx[h] = 2
        /\ InSeq(<<h, 1>>, accepted)

\* C13: connect is called at most once, and when it is called nothing was
\* received, written or accepted and no forwarder exists; it is never called
\* after a refused connect or after a write or flush error.
C13_ConnectStep ==
    connects' # connects =>
        /\ connects = 0
        /\ stream = "none"
        /\ fwd_pc = "none"
        /\ ioErrors = 0
        /\ accepted = << >>
        /\ written = << >>

C13_SingleConnect == [](connects <= 1) /\ [][C13_ConnectStep]_vars

\* C13 witness: after the one connect a write or flush failed and the
\* forwarder went on to another message.
C13_Witness ==
    /\ connects = 1
    /\ ioErrors >= 1
    /\ Len(written) >= 2
    /\ flushes >= 2

\* C14: without the address main returns an error before anything else: no
\* connect, no channel, no forwarder, no invocation.
C14_MissingAddressIsFatal ==
    ~addressSet =>
        /\ main_pc \in {"start", "returned", "exited"}
        /\ main_pc # "start" => mainResult = "err"
        /\ connects = 0
        /\ stream = "none"
        /\ ~senderAlive
        /\ ~rxAlive
        /\ fwd_pc = "none"
        /\ queue = << >>
        /\ accepted = << >>
        /\ \A h \in Invocations : hpc[h] = "idle"

\* C14 witness: the process has exited with the error of the missing address.
C14_Witness ==
    /\ ~addressSet
    /\ main_pc = "exited"
    /\ mainResult = "err"

\* what a payload adds to the event, by its class
PayloadContribution(json, record) ==
    LET parsed == Parse(record)
    IN  IF ~parsed.ok
        THEN /\ Keys(json) = {"t", "type", "record"}
             /\ JEq(Get(json, "record"), JStr(record))
        ELSE CASE parsed.val.k = "obj" ->
                    /\ Keys(json) = {"t", "type"} \cup Keys(parsed.val.v)
                    /\ \A i \in 1..Len(parsed.val.v) :
                          JEq(Get(json, parsed.val.v[i][1]), parsed.val.v[i][2])
                    /\ ~Has(json, "record")
               [] parsed.val.k = "null" -> Keys(json) = {"t", "type"}
               [] OTHER ->
                    /\ Keys(json) = {"t", "type", "record"}
                    /\ JEq(Get(json, "record"), parsed.val)

\* C15 (as claimed): the event of a Function log has type = "function" and
\* holds what its payload's class contributes: the pairs of an object and no
\* record field, nothing for null, the parsed value under record for any
\* other JSON value, the raw text under record when the payload does not parse.
C15_FunctionPayloadClasses ==
    \A msg \in InFlight :
        LET log == LogOf(msg)
        IN  log.variant = "Function" =>
              /\ Has(msg.json, "type")
              /\ JEq(Get(msg.json, "type"), JStr("function"))
              /\ PayloadContribution(msg.json, log.record)

\* C16: the forwarder is past its loop only with every Sender gone and the
\* channel empty; shutdown is called once, from there, and ends the task;
\* after it nothing is written or flushed and the task does nothing more.
C16_PastLoop ==
    fwd_pc \in {"shutdown", "done"} =>
        (queue = << >> /\ ~ProducersOpen(senderAlive, hpc) /\ cur.src = NoMsg.src)

C16_ShutdownStep ==
    /\ (stream' = "shutdown" /\ stream # "shutdown") =>
          (fwd_pc = "shutdown" /\ fwd_pc' = "done")
    /\ fwd_pc = "shutdown" => fwd_pc' \in {"shutdown", "done", "aborted"}
    /\ fwd_pc = "done" =>
          /\ fwd_pc' = "done"
          /\ UNCHANGED <<stream, buf, wire, written, flushes, queue>>
    /\ stream = "shutdown" => UNCHANGED <<stream, buf, wire, written, flushes>>

IntactLine(line) ==
    /\ line.src[1] \in Invocations
    /\ line.src[2] \in 1..Len(hbatch[line.src[1]])
    /\ line = FormatLine(Msg(BuildJson(hbatch[line.src[1]][line.src[2]]),
                             line.src[1], line.src[2]))

\* C17: only the forwarder task changes the stream, its buffer or what the
\* socket took: a step that does is a step of the forwarder's write, flush or
\* shutdown and of no invocation and not of main; every line on the sink is
\* one whole line.
C17_SinkStep ==
    (stream # "none" /\ <<stream, buf, wire, written, flushes>>'
                          # <<stream, buf, wire, written, flushes>>) =>
        /\ fwd_pc \in {"write", "flush", "shutdown"}
        /\ fwd_pc' # fwd_pc
        /\ UNCHANGED <<mainVars, handlerVars, accepted>>

C17_LinesIntact == \A i \in 1..Len(Lines) : IntactLine(Lines[i])

C17_SinkOwnedByForwarder == [](C17_LinesIntact) /\ [][C17_SinkStep]_vars

\* C17 witness: lines of both invocations are on the wire.
C17_Witness ==
    \A h \in Invocations : \E i \in 1..Len(wire) : wire[i].src[1] = h

\* C19: while the forwarder is in its loop the Receiver exists; the Receiver
\* goes away only when the forwarder has ended with every Sender gone or was
\* aborted; an invocation sees a send fail only after the forwarder was aborted.
C19_ReceiverKept ==
    /\ fwd_pc \in {"recv", "write", "flush", "shutdown"} => rxAlive
    /\ fwd_pc = "done" => ~ProducersOpen(senderAlive, hpc)
    /\ \A h \in Invocations : hpc[h] = "err" => fwd_pc = "aborted"

C19_ReceiverStep ==
    /\ (fwd_pc = "recv" /\ fwd_pc' = "shutdown") =>
          (queue = << >> /\ ~ProducersOpen(senderAlive, hpc))
    /\ (rxAlive /\ ~rxAlive') =>
          (fwd_pc' = "aborted" \/ ~ProducersOpen(senderAlive, hpc))

C19_NoCloseWhileProducers == [](C19_ReceiverKept) /\ [][C19_ReceiverStep]_vars

\* C19 witness: the forwarder has ended by itself after an invocation
\* returned Ok, and no invocation failed.
C19_Witness ==
    /\ fwd_pc = "done"
    /\ \E h \in Invocations : hpc[h] = "ok"
    /\ \A h \in Invocations : hpc[h] # "err"

\* the messages the forwarder has received so far
Dequeued == Len(accepted) - Len(queue)

\* C20: every received message gets one write_all call and then one flush
\* call before the next recv, whether write_all failed or not: at recv the
\* calls of both kinds equal the messages received, between the two calls
\* write_all is one ahead, and no message is handed to write_all twice.
C20_OneWriteOneFlush ==
    /\ NoDuplicates(written)
    /\ fwd_pc \in {"recv", "shutdown", "done"} =>
          (Len(written) = Dequeued /\ flushes = Dequeued)
    /\ fwd_pc = "write" => (Len(written) = Dequeued - 1 /\ flushes = Dequeued - 1)
    /\ fwd_pc = "flush" => (Len(written) = Dequeued /\ flushes = Dequeued - 1)

\* C20 witness: write_all failed for the last message received, flush was
\* called for it all the same, and the forwarder is back at recv.
C20_Witness ==
    /\ fwd_pc = "recv"
    /\ Len(written) >= 1
    /\ flushes = Len(written)
    /\ ~InSeq(written[Len(written)], Srcs(Lines))

\* C18: with the forwarder scheduled and its write_all and flush calls
\* returning, an invocation suspended in send on a full channel has its message
\* accepted in the end, and every invocation returns Ok in the end.
C18_BackpressureNoDeadlock ==
    \A h \in Invocations :
        /\ \A i \in 1..MaxBatchLen :
              (hpc[h] = "suspended" /\ hidx[h] = i) ~> InSeq(<<h, i>>, accepted)
        /\ (hpc[h] \in {"running", "suspended"}) ~> (hpc[h] = "ok")

\* C18 witness: an invocation is suspended on a full channel while the
\* forwarder is between a failed write_all and its flush.
C18_Witness ==
    /\ \E h \in Invocations : hpc[h] = "suspended"
    /\ Len(queue) = Capacity
    /\ fwd_pc = "flush"
    /\ ioErrors > 0
    /\ ~InSeq(written[Len(written)], Srcs(Lines))

====
